---- MODULE Spec2Model ----
(***************************************************************************)
(* LexFlow intake pipeline: the intake Lambda (lexflow-intake/handler.py,  *)
(* ai_classifier.py, db.py, emailer.py) and the dashboard Lambda           *)
(* (lexflow-dashboard/handler.py, db.py) over one shared DynamoDB table.   *)
(*                                                                         *)
(* Python / JSON values are tagged records [t |-> type name, v |-> value]. *)
(* A str is a sequence of text atoms: " " is a whitespace character, any   *)
(* other atom is a run of non-whitespace text ("Family Law" is one atom;   *)
(* the blank inside an atom is never at its edge, so strip() never cuts    *)
(* into an atom).  A dict is a function from its keys to values in which a *)
(* key that is not in the dict maps to Absent.                             *)
(***************************************************************************)
EXTENDS Integers, Sequences, FiniteSets, TLC

(***************************************************************************)
(* Bounds of the model.                                                    *)
(***************************************************************************)
MaxDeviations == 2    \* fields of a classifier payload that differ from the well-formed base
MaxFactsProbe == 6    \* longest key_facts list an enumerated payload carries
ScoreMargin   == 1    \* enumerated integer scores run from -ScoreMargin to 10 + ScoreMargin
NumRequests   == 2    \* Lambda invocations (requests) of one behaviour, all may overlap
MaxStored     == 2    \* records the table holds when the invocations start
MaxRecords    == 11   \* records of the largest table the dashboard is run on
MaxSeed       == 2    \* number of attribute patterns of those tables, less one
MaxTime       == 1    \* a clock read returns 0..MaxTime; the handlers read the clock before
                      \* their store call and run on separate hosts, so the values read
                      \* are not ordered like the writes

(***************************************************************************)
(* Python values.                                                          *)
(***************************************************************************)
PyStr(s)   == [t |-> "str",   v |-> s]
PyInt(n)   == [t |-> "int",   v |-> n]
PyBool(b)  == [t |-> "bool",  v |-> b]
PyFloat(n) == [t |-> "float", v |-> n]      \* n is the value in tenths
PyList(xs) == [t |-> "list",  v |-> xs]
None       == [t |-> "NoneType", v |-> 0]
Absent     == [t |-> "absent",   v |-> 0]   \* the key is not in the dict

\* isinstance(x, cls); bool is a subclass of int in Python
isinstance(x, cls) ==
    IF cls = "int" THEN x.t \in {"int", "bool"} ELSE x.t = cls

\* the numeric value Python compares when an int (or bool) meets < and >
IntValue(x) == IF x.t = "bool" THEN (IF x.v THEN 1 ELSE 0) ELSE x.v

Whitespace == {" ", "\n"}

RECURSIVE lstrip(_)
lstrip(s) == IF s = <<>> THEN s
             ELSE IF Head(s) \in Whitespace THEN lstrip(Tail(s)) ELSE s

RECURSIVE rstrip(_)
rstrip(s) == IF s = <<>> THEN s
             ELSE IF s[Len(s)] \in Whitespace THEN rstrip(SubSeq(s, 1, Len(s) - 1)) ELSE s

\* str.strip()
strip(s) == rstrip(lstrip(s))

\* dict.keys()
keys(d) == {k \in DOMAIN d : d[k].t # "absent"}

\* dict.get(k, default)
get(d, k, default) == IF k \in DOMAIN d /\ d[k].t # "absent" THEN d[k] ELSE default

(***************************************************************************)
(* ai_classifier.py: the schema of a classification result.                *)
(***************************************************************************)
REQUIRED_KEYS ==
    {"case_type", "viability_score", "urgency", "statute_of_limitations_flag",
     "key_facts", "recommended_specialty", "recommended_action",
     "client_acknowledgment"}

VALID_CASE_TYPES ==
    {<<"Personal Injury - Vehicle Accident">>,
     <<"Personal Injury - Slip and Fall">>,
     <<"Personal Injury - Medical Malpractice">>,
     <<"Personal Injury - Workplace Injury">>,
     <<"Defamation - Libel (Written)">>,
     <<"Defamation - Slander (Spoken)">>,
     <<"Malicious Prosecution - False Criminal Accusation">>,
     <<"Malicious Prosecution - Workplace False Accusation">>,
     <<"Malicious Prosecution - False Sexual Misconduct Accusation">>,
     <<"Family Law">>,
     <<"Employment Law">>,
     <<"Out of Scope">>}

VALID_URGENCY == {<<"low">>, <<"medium">>, <<"high">>, <<"critical">>}

\* x in S for a set S of strs: only a str can equal a member
InStrSet(x, S) == x.t = "str" /\ x.v \in S

\* the index of the first key_facts element that is not a str, 0 when all are
FirstNonStr(facts) ==
    IF \E i \in DOMAIN facts : ~isinstance(facts[i], "str")
    THEN CHOOSE i \in DOMAIN facts :
            /\ ~isinstance(facts[i], "str")
            /\ \A j \in 1..(i - 1) : isinstance(facts[j], "str")
    ELSE 0

\* the first of the three text fields that fails, "" when none does
FirstBadText(result) ==
    LET bad(f) == ~isinstance(result[f], "str") \/ strip(result[f].v) = <<>>
    IN  IF bad("recommended_specialty") THEN "recommended_specialty"
        ELSE IF bad("recommended_action") THEN "recommended_action"
        ELSE IF bad("client_acknowledgment") THEN "client_acknowledgment"
        ELSE ""

\* _validate, the key_facts part
FactsCheck(facts) ==
    IF ~isinstance(facts, "list") \/ ~(3 <= Len(facts.v) /\ Len(facts.v) <= 5)
    THEN "key_facts must be a list of 3-5 strings"
    ELSE IF FirstNonStr(facts.v) # 0 THEN "key_facts: element is not a string"
    ELSE "ok"

\* _validate, the viability_score part
ScoreCheck(score) ==
    IF ~isinstance(score, "int") \/ IntValue(score) < 0 \/ IntValue(score) > 10
    THEN "viability_score out of range"
    ELSE "ok"

\* a membership test that lets every str through (no closed set)
EnumCheckAnyStr(x, S, reason) == IF x.t = "str" THEN "ok" ELSE reason

\* _validate, a closed-set membership test (x not in S raises reason); a list
\* is unhashable, so testing it against a set raises TypeError instead
EnumCheck(x, S, reason) ==
    IF x.t = "list" THEN "TypeError: unhashable type"
    ELSE IF InStrSet(x, S) THEN "ok" ELSE reason

\* a validator that tests case_type and urgency before the presence of the keys
_validateEnumsFirst(result) ==
    IF result.t # "dict" THEN "AttributeError"
    ELSE LET r == result.v IN
    IF EnumCheck(r["case_type"], VALID_CASE_TYPES, "Invalid case_type") # "ok"
         THEN EnumCheck(r["case_type"], VALID_CASE_TYPES, "Invalid case_type")
    ELSE IF EnumCheck(r["urgency"], VALID_URGENCY, "Invalid urgency") # "ok"
         THEN EnumCheck(r["urgency"], VALID_URGENCY, "Invalid urgency")
    ELSE IF REQUIRED_KEYS \ keys(r) # {} THEN "Missing required keys"
    ELSE IF ScoreCheck(r["viability_score"]) # "ok"
         THEN ScoreCheck(r["viability_score"])
    ELSE IF ~isinstance(r["statute_of_limitations_flag"], "bool")
         THEN "statute_of_limitations_flag must be a boolean"
    ELSE IF FactsCheck(r["key_facts"]) # "ok"
         THEN FactsCheck(r["key_facts"])
    ELSE IF FirstBadText(r) # ""
         THEN "must be a non-empty string"
    ELSE "ok"

\* _validate(result): "ok" when it returns, else the reason of the exception
\* it raises.  A payload that is not a dict has no keys(): AttributeError.
_validate(result) ==
    IF result.t # "dict" THEN "AttributeError"
    ELSE LET r == result.v IN
    IF REQUIRED_KEYS \ keys(r) # {} THEN "Missing required keys"
    ELSE IF EnumCheck(r["case_type"], VALID_CASE_TYPES, "Invalid case_type") # "ok"
         THEN EnumCheck(r["case_type"], VALID_CASE_TYPES, "Invalid case_type")
    ELSE IF EnumCheck(r["urgency"], VALID_URGENCY, "Invalid urgency") # "ok"
         THEN EnumCheck(r["urgency"], VALID_URGENCY, "Invalid urgency")
    ELSE IF ScoreCheck(r["viability_score"]) # "ok"
         THEN ScoreCheck(r["viability_score"])
    ELSE IF ~isinstance(r["statute_of_limitations_flag"], "bool")
         THEN "statute_of_limitations_flag must be a boolean"
    ELSE IF FactsCheck(r["key_facts"]) # "ok"
         THEN FactsCheck(r["key_facts"])
    ELSE IF FirstBadText(r) # ""
         THEN "must be a non-empty string"
    ELSE "ok"

(***************************************************************************)
(* Classifier payloads the validator is exercised on: the well-formed      *)
(* payload with up to MaxDeviations of its keys replaced by probe values   *)
(* (other types, near misses of the enums, out-of-range numbers, absent),  *)
(* and payloads that are not a JSON object at all.                         *)
(***************************************************************************)
Text(a) == PyStr(<<a>>)

BasePayload ==
    [case_type                   |-> Text("Personal Injury - Slip and Fall"),
     viability_score             |-> PyInt(5),
     urgency                     |-> Text("medium"),
     statute_of_limitations_flag |-> PyBool(FALSE),
     key_facts                   |-> PyList(<<Text("fell on wet floor"),
                                              Text("no warning sign"),
                                              Text("minor injury")>>),
     recommended_specialty       |-> Text("PI attorney"),
     recommended_action          |-> Text("schedule consult"),
     client_acknowledgment       |-> Text("Hi Ana")]

\* values of the wrong type for every key
JunkVals ==
    {Absent, None, PyInt(5), PyBool(TRUE), PyStr(<<>>), PyList(<<>>)}

\* lists of n facts, all strings "f", the first or the last element possibly
\* replaced by an empty string or by a number
FactLists(n) ==
    LET plain == [i \in 1..n |-> Text("f")]
    IN  {PyList(plain)} \cup
        {PyList([plain EXCEPT ![i] = e]) :
            i \in {1, n} \cap (1..n), e \in {PyStr(<<>>), PyInt(5)}}

FieldVals(k) ==
    JunkVals \cup
    CASE k = "case_type" ->
           {PyStr(c) : c \in VALID_CASE_TYPES} \cup
           {Text("family law"), PyStr(<<" ", "Family Law">>), Text("Other")}
      [] k = "urgency" ->
           {PyStr(u) : u \in VALID_URGENCY} \cup
           {Text("High"), PyStr(<<"low", " ">>), Text("urgent")}
      [] k = "viability_score" ->
           {PyInt(n) : n \in (0 - ScoreMargin)..(10 + ScoreMargin)} \cup
           {PyBool(FALSE), PyFloat(50), PyFloat(55), Text("5")}
      [] k = "statute_of_limitations_flag" ->
           {PyBool(FALSE), PyInt(0), PyInt(1), Text("true")}
      [] k = "key_facts" ->
           UNION {FactLists(n) : n \in 0..MaxFactsProbe}
      [] OTHER ->
           {Text("ok text"), PyStr(<<" ", "padded", " ">>), PyStr(<<" ", " ">>)}

RECURSIVE Deviating(_)
Deviating(n) ==
    IF n = 0 THEN {BasePayload}
    ELSE LET prev == Deviating(n - 1)
         IN  prev \cup {[p EXCEPT ![k] = x] :
                          p \in prev, <<k, x>> \in UNION {{k} \X FieldVals(k) : k \in REQUIRED_KEYS}}

PyDict(d) == [t |-> "dict", v |-> d]

Payloads ==
    {PyDict(d) : d \in Deviating(MaxDeviations)} \cup
    {PyList(<<>>), Text("not json object"), PyInt(7), None}

VARIABLES
    payload,     \* the parsed classifier output handed to _validate
    verdict,     \* "pending" before _validate ran, then its outcome
    table,       \* the DynamoDB table: primary key (intake_id) -> item
    scanOrder,   \* the keys of the table in the order a Scan reads them
    pc,          \* per invocation: where the handler stands
    local,       \* per invocation: the handler's local variables still in use
    resp,        \* per invocation: the response returned
    calls        \* per invocation: the collaborator calls made and the failures
                 \* logged, in order

vvars == <<payload, verdict>>
svars == <<table, scanOrder, pc, local, resp, calls>>
vars  == <<payload, verdict, table, scanOrder, pc, local, resp, calls>>

Procs == 1..NumRequests

NoLocal == [route |-> "none"]
NoResp  == [route |-> "none", statusCode |-> 0, error |-> "", intake_id |-> Absent]

\* _response(status_code, body), reduced to the parts callers tell apart
Response(route, code, err, id) ==
    [route |-> route, statusCode |-> code, error |-> err, intake_id |-> id]

\* an exception no handler catches: the invocation fails
Unhandled(route, exc) ==
    [route |-> route, statusCode |-> -1, error |-> exc, intake_id |-> Absent]

InitInvocations ==
    /\ pc = [p \in Procs |-> "idle"]
    /\ local = [p \in Procs |-> NoLocal]
    /\ resp = [p \in Procs |-> NoResp]
    /\ calls = [p \in Procs |-> << >>]

InitSystem ==
    /\ table = << >>
    /\ scanOrder = << >>
    /\ InitInvocations

\* invocations are interchangeable: they are numbered in the order they arrive
MayArrive(p) == pc[p] = "idle" /\ \A q \in Procs : q < p => pc[q] # "idle"

\* the handler returns (or fails): only which Lambda ran is remembered
Finish(p, r) ==
    /\ pc' = [pc EXCEPT ![p] = "done"]
    /\ resp' = [resp EXCEPT ![p] = r]
    /\ local' = [local EXCEPT ![p] = [route |-> r.route]]

(***************************************************************************)
(* Name resolution in lexflow-intake/handler.py.  A name that is assigned  *)
(* anywhere in a function body is a local of that function in its whole    *)
(* body.  Lines 163-168 (REQUIRED_FIELDS = ..., PORTAL_CORS_HEADERS = ...) *)
(* are indented into lambda_handler, after its last return: the two names  *)
(* are locals of lambda_handler that are never bound, and                  *)
(* PORTAL_CORS_HEADERS is not a global of the module.                      *)
(***************************************************************************)
\* the names bound at module level, lines 6-43 and 171
MODULE_GLOBALS ==
    {"json", "logging", "os", "hashlib", "secrets", "uuid", "datetime", "timezone",
     "ai_classifier", "db", "emailer", "logger",
     "DYNAMODB_TABLE", "ANTHROPIC_KEY", "ATTORNEY_EMAIL", "FROM_EMAIL", "AWS_REGION",
     "REQUIRED_FIELDS", "_cors_headers", "_response", "lambda_handler", "handle_portal"}

\* the names assigned in the body of lambda_handler, lines 43-168
LAMBDA_HANDLER_LOCALS ==
    {"event", "context", "method", "path", "PORTAL_CORS_HEADERS", "raw_body", "body",
     "e", "REQUIRED_FIELDS", "missing", "client_name", "client_email", "client_phone",
     "incident_date", "description", "prior_attorney", "ai_result", "intake_id",
     "timestamp", "record", "portal_url"}

\* the names assigned in the body of handle_portal, lines 171-208
HANDLE_PORTAL_LOCALS == {"event", "params", "token", "record", "safe"}

\* reading a name in a function: "" when it has a value, else the exception
LoadName(name, locals, bound) ==
    IF name \in locals
    THEN (IF name \in bound THEN "" ELSE "UnboundLocalError")
    ELSE IF name \in MODULE_GLOBALS THEN "" ELSE "NameError"

(***************************************************************************)
(* lexflow-intake/handler.py: POST /intake                                 *)
(***************************************************************************)
REQUIRED_FIELDS ==
    {"client_name", "client_email", "client_phone", "incident_date", "description"}

BaseBody ==
    [client_name    |-> PyStr(<<" ", "Ana", " ">>),
     client_email   |-> Text("a@x.com"),
     client_phone   |-> Text("555"),
     incident_date  |-> Text("2025-01-01"),
     description    |-> Text("slipped at store"),
     prior_attorney |-> Absent]

\* request bodies of a submission; json_ok is whether json.loads accepts the text
IntakeEvents ==
    {[route |-> "intake", json_ok |-> TRUE, body |-> b] :
        b \in {BaseBody,
               [BaseBody EXCEPT !.client_phone = Absent],
               [BaseBody EXCEPT !.description = PyStr(<<" ">>), !.prior_attorney = PyBool(TRUE)],
               [BaseBody EXCEPT !.client_name = PyInt(5)]}}
    \cup {[route |-> "intake", json_ok |-> FALSE, body |-> BaseBody]}

\* bool(x)
truthy(x) ==
    CASE x.t = "bool" -> x.v
      [] x.t = "int" -> x.v # 0
      [] x.t = "float" -> x.v # 0
      [] x.t = "str" -> x.v # <<>>
      [] x.t = "list" -> x.v # <<>>
      [] OTHER -> FALSE

\* handler.py line 70: REQUIRED_FIELDS - body.keys()
MissingFields(body) == REQUIRED_FIELDS \ keys(body)

\* the names lambda_handler has bound when it reaches line 70
BoundAtLine70 == {"event", "context", "method", "path", "raw_body", "body"}

\* lines 56-80: parse the body, then read REQUIRED_FIELDS to check the
\* required fields.  The read raises (see LoadName), outside every try
\* block, so lines 71-161 (the field check, the classification, put_item and
\* the emails) run in no invocation.
IntakeValidateInput(p, ev) ==
    /\ MayArrive(p)
    /\ ev \in IntakeEvents
    /\ calls' = [calls EXCEPT ![p] = << >>]
    /\ IF ~ev.json_ok
       THEN Finish(p, Response("intake", 400, "Invalid JSON in request body.", Absent))
       ELSE IF LoadName("REQUIRED_FIELDS", LAMBDA_HANDLER_LOCALS, BoundAtLine70) # ""
       THEN Finish(p, Unhandled("intake",
                 LoadName("REQUIRED_FIELDS", LAMBDA_HANDLER_LOCALS, BoundAtLine70)))
       ELSE IF MissingFields(ev.body) # {}
       THEN Finish(p, Response("intake", 400, "Missing required fields", Absent))
       ELSE IF \E f \in REQUIRED_FIELDS : ev.body[f].t # "str"
       THEN Finish(p, Unhandled("intake", "AttributeError"))   \* .strip() of a non-str
       ELSE /\ pc' = [pc EXCEPT ![p] = "classify"]
            /\ local' = [local EXCEPT ![p] =
                  [route          |-> "intake",
                   client_name    |-> PyStr(strip(ev.body.client_name.v)),
                   client_email   |-> PyStr(strip(ev.body.client_email.v)),
                   client_phone   |-> PyStr(strip(ev.body.client_phone.v)),
                   incident_date  |-> PyStr(strip(ev.body.incident_date.v)),
                   description    |-> PyStr(strip(ev.body.description.v)),
                   prior_attorney |-> PyBool(truthy(get(ev.body, "prior_attorney", PyBool(FALSE))))]]
            /\ UNCHANGED resp
    /\ UNCHANGED <<table, scanOrder, vvars>>

(***************************************************************************)
(* ai_classifier.classify and the record lines 99-124 of the intake        *)
(* handler build from its result                                           *)
(***************************************************************************)
\* what the classifier collaborator can answer: the API call raises, or it
\* returns text that json.loads rejects, or text that parses to a value
QuirkyPayload ==
    [BasePayload EXCEPT
        !.case_type = Text("Out of Scope"),
        !.viability_score = PyBool(TRUE),
        !.key_facts = PyList(<<Text("fell"), PyStr(<<>>), Text("sued")>>)]

SystemPayloads ==
    {PyDict(BasePayload),
     PyDict(QuirkyPayload),
     PyDict([BasePayload EXCEPT !.urgency = Absent]),
     PyDict([BasePayload EXCEPT !.case_type = Text("Other")]),
     PyDict([BasePayload EXCEPT !.viability_score = PyInt(11)]),
     PyList(<<>>)}

ClassifierReplies ==
    {[kind |-> "raise", json_ok |-> FALSE, value |-> None],
     [kind |-> "text",  json_ok |-> FALSE, value |-> None]}
    \cup {[kind |-> "text", json_ok |-> TRUE, value |-> x] : x \in SystemPayloads}

Return(x)  == [raised |-> "",  value |-> x]
Raise(exc) == [raised |-> exc, value |-> None]

\* ai_classifier.classify, lines 105-135
classify(reply) ==
    IF reply.kind = "raise" THEN Raise("APIError")
    ELSE IF ~reply.json_ok THEN Raise("ValueError: invalid JSON")
    ELSE IF _validate(reply.value) # "ok" THEN Raise(_validate(reply.value))
    ELSE Return(reply.value)

\* datetime.now(timezone.utc).isoformat(): fixed-width text, so that the
\* order of the texts is the order of the instants; t is the instant
isoformat(t) == PyStr(<<ToString(t)>>)

\* str(uuid.uuid4()): the values are opaque, so they are named by a number
uuid4(n) == PyStr(<<"uuid", ToString(n)>>)

\* secrets.token_urlsafe(32): likewise
token_urlsafe(n) == PyStr(<<"token", ToString(n)>>)

\* lines 103-124
BuildRecord(l, intake_id, timestamp, token) ==
    [intake_id                   |-> intake_id,
     timestamp                   |-> timestamp,
     client_name                 |-> l.client_name,
     client_email                |-> l.client_email,
     client_phone                |-> l.client_phone,
     incident_date               |-> l.incident_date,
     prior_attorney              |-> l.prior_attorney,
     raw_description             |-> l.description,
     case_type                   |-> l.ai_result["case_type"],
     viability_score             |-> l.ai_result["viability_score"],
     urgency                     |-> l.ai_result["urgency"],
     statute_of_limitations_flag |-> l.ai_result["statute_of_limitations_flag"],
     key_facts                   |-> l.ai_result["key_facts"],
     recommended_specialty       |-> l.ai_result["recommended_specialty"],
     recommended_action          |-> l.ai_result["recommended_action"],
     client_acknowledgment       |-> l.ai_result["client_acknowledgment"],
     ai_model_used               |-> Text("claude-haiku-4-5"),
     status                      |-> Text("new"),
     attorney_note               |-> PyStr(<<>>),
     portal_token                |-> token]

\* DynamoDB PutItem: creates the item or replaces the one with the same key
PutItem(tbl, item) ==
    [k \in DOMAIN tbl \cup {item.intake_id} |->
        IF k = item.intake_id THEN item ELSE tbl[k]]

(***************************************************************************)
(* lexflow-intake/emailer.py and the calls lines 135-151 of the handler    *)
(* make                                                                    *)
(***************************************************************************)
\* emailer.py lines 27-34: the parameters send_client_ack declares
SEND_CLIENT_ACK_PARAMS ==
    {"to_email", "client_name", "case_type", "acknowledgment_text", "from_email", "region"}

\* handler.py lines 137-145: the keyword arguments the handler passes
ClientAckKwargs ==
    {"to_email", "client_name", "case_type", "acknowledgment_text", "portal_url",
     "from_email", "region"}

\* emailer.py lines 68-73 and handler.py lines 146-151
SEND_ATTORNEY_ALERT_PARAMS == {"to_email", "record", "from_email", "region"}
AttorneyAlertKwargs == {"to_email", "record", "from_email", "region"}

\* what an SES send_email call can do: succeed, raise botocore ClientError,
\* or raise another exception (no endpoint, no credentials)
SesOutcomes == {"sent", "ClientError", "OtherError"}

\* a call of an emailer function with keyword arguments kw: Python raises
\* TypeError for a keyword the function does not declare, before its body
\* runs; in the body a ClientError is logged and swallowed (emailer.py lines
\* 59-65, 184-191), any other exception propagates
EmailCall(name, kw, params, ses) ==
    IF ~(kw \subseteq params) THEN [trace |-> <<name>>, raised |-> "TypeError"]
    ELSE IF ses = "OtherError" THEN [trace |-> <<name, "ses.send_email">>, raised |-> "OtherError"]
    ELSE IF ses = "ClientError" THEN [trace |-> <<name, "ses.send_email">>, raised |-> ""]
    ELSE [trace |-> <<name, "ses.send_email", "delivered">>, raised |-> ""]

\* handler.py lines 135-154: the two calls in one try block
SendEmails(ses1, ses2) ==
    LET ack == EmailCall("send_client_ack", ClientAckKwargs, SEND_CLIENT_ACK_PARAMS, ses1)
        alert == EmailCall("send_attorney_alert", AttorneyAlertKwargs,
                           SEND_ATTORNEY_ALERT_PARAMS, ses2)
    IN  IF ack.raised # "" THEN ack
        ELSE [trace |-> ack.trace \o alert.trace, raised |-> alert.raised]

\* handler.py lines 153-161: the exception is logged, the success response
\* is returned
NotifyResponse(raised, intake_id) == Response("intake", 200, "", intake_id)

\* handler.py lines 134-161: the notification block, for the outcomes ses1
\* and ses2 of the two SES requests
IntakeNotify(p, ses1, ses2) ==
    /\ pc[p] = "notify"
    /\ ses1 \in SesOutcomes /\ ses2 \in SesOutcomes
    /\ LET sent == SendEmails(ses1, ses2) IN
        /\ calls' = [calls EXCEPT ![p] =
              @ \o sent.trace \o
              (IF sent.raised # "" THEN <<sent.raised, "Email sending failed">> ELSE << >>)]
        /\ Finish(p, NotifyResponse(sent.raised, local[p].intake_id))
    /\ UNCHANGED <<table, scanOrder, vvars>>

(***************************************************************************)
(* The contents of the table when the invocations start.  The table        *)
(* outlives the invocations and is filled outside the steps modelled here: *)
(* its items have the layout of the record lines 103-124 build.            *)
(***************************************************************************)
\* the locals lines 75-80 bind for the well-formed body
BaseLocals ==
    [client_name    |-> PyStr(strip(BaseBody.client_name.v)),
     client_email   |-> PyStr(strip(BaseBody.client_email.v)),
     client_phone   |-> PyStr(strip(BaseBody.client_phone.v)),
     incident_date  |-> PyStr(strip(BaseBody.incident_date.v)),
     description    |-> PyStr(strip(BaseBody.description.v)),
     prior_attorney |-> PyBool(FALSE)]

\* the n-th stored record
StoredRecord(n) ==
    BuildRecord([ai_result |-> IF n % 2 = 0 THEN QuirkyPayload ELSE BasePayload] @@ BaseLocals,
                uuid4(n), isoformat(n % (MaxTime + 1)), token_urlsafe(n))

\* the table holding the first k stored records
Store(k) ==
    [id \in {uuid4(n) : n \in 1..k} |->
        StoredRecord(CHOOSE n \in 1..k : uuid4(n) = id)]

Stores == {Store(k) : k \in 0..MaxStored}

\* the orders in which a Scan can read the items of a table: DynamoDB
\* orders them by a hash of the key
ScanOrders(tbl) ==
    {o \in [1..Cardinality(DOMAIN tbl) -> DOMAIN tbl] :
        \A i, j \in DOMAIN o : i # j => o[i] # o[j]}

(***************************************************************************)
(* lexflow-intake: GET /portal?token=...                                   *)
(***************************************************************************)
\* the query strings of a lookup: no token, a blank one, the tokens of the
\* stored records (one of them padded) and one token no record has
PortalEvents ==
    {[route |-> "portal", token |-> t] :
        t \in {Absent, PyStr(<<" ">>), PyStr(<<" ">> \o token_urlsafe(1).v)}
              \cup {token_urlsafe(n) : n \in 1..(MaxStored + 1)}}

\* DynamoDB Scan with FilterExpression "portal_token = :token" and Limit
\* (db.py lines 56-60): Limit bounds the number of items the request reads,
\* the filter is applied to the items read
FilteredScan(tbl, order, limit, token) ==
    LET read == [i \in 1..(IF Len(order) < limit THEN Len(order) ELSE limit) |-> tbl[order[i]]]
        matches(item) == get(item, "portal_token", None) = token
    IN  SelectSeq(read, matches)

\* db.get_by_token, lines 55-62: the item or None
get_by_token(tbl, order, portal_token) ==
    LET items == FilteredScan(tbl, order, 1, portal_token)
    IN  IF items # << >> THEN items[1] ELSE None

\* lines 197-203
PortalProjection(record) ==
    [client_name   |-> get(record, "client_name", None),
     case_type     |-> get(record, "case_type", None),
     status        |-> get(record, "status", Text("new")),
     timestamp     |-> get(record, "timestamp", None),
     incident_date |-> get(record, "incident_date", None)]

\* a response of handle_portal: evaluating its headers reads
\* PORTAL_CORS_HEADERS (lines 179, 192, 206)
PortalResponse(code, err, body) ==
    IF LoadName("PORTAL_CORS_HEADERS", HANDLE_PORTAL_LOCALS, HANDLE_PORTAL_LOCALS) # ""
    THEN Unhandled("portal",
             LoadName("PORTAL_CORS_HEADERS", HANDLE_PORTAL_LOCALS, HANDLE_PORTAL_LOCALS))
    ELSE [route |-> "portal", statusCode |-> code, intake_id |-> Absent,
          error |-> err, body |-> body]

\* handle_portal, lines 171-208; what get_by_token returned is kept in
\* local.record
PortalLookup(p, ev) ==
    /\ MayArrive(p)
    /\ ev \in PortalEvents
    /\ pc' = [pc EXCEPT ![p] = "done"]
    /\ LET token == strip(get(ev, "token", PyStr(<<>>)).v) IN
       IF token = << >>
       THEN /\ calls' = [calls EXCEPT ![p] = << >>]
            /\ local' = [local EXCEPT ![p] = [route |-> "portal"]]
            /\ resp' = [resp EXCEPT ![p] = PortalResponse(400, "Missing token.", None)]
       ELSE \E reachable \in BOOLEAN :
            IF ~reachable
            THEN /\ calls' = [calls EXCEPT ![p] = <<"get_by_token", "ClientError">>]
                 /\ local' = [local EXCEPT ![p] = [route |-> "portal"]]
                 /\ resp' = [resp EXCEPT ![p] = Unhandled("portal", "ClientError")]
            ELSE LET record == get_by_token(table, scanOrder, PyStr(token)) IN
                 /\ calls' = [calls EXCEPT ![p] = <<"get_by_token">>]
                 /\ local' = [local EXCEPT ![p] = [route |-> "portal", record |-> record]]
                 /\ resp' = [resp EXCEPT ![p] =
                       IF record = None
                       THEN PortalResponse(404, "Case not found. Your link may have expired.", None)
                       ELSE PortalResponse(200, "", PortalProjection(record))]
    /\ UNCHANGED <<table, scanOrder, vvars>>

(***************************************************************************)
(* lexflow-dashboard: POST /case/{intake_id}/status                        *)
(***************************************************************************)
VALID_STATUSES ==
    {<<"active">>, <<"declined">>, <<"needs_review">>, <<"new">>, <<"claimed">>, <<"closed">>}

\* str.lower() on the atoms the requests use
LowerAtom(a) ==
    CASE a = "CLOSED" -> "closed"
      [] a = "Declined" -> "declined"
      [] a = "Bogus" -> "bogus"
      [] OTHER -> a

lower(s) == [i \in DOMAIN s |-> LowerAtom(s[i])]

StatusBodies ==
    {[status |-> Text("declined"),          note |-> PyStr(<<" ", "not viable", " ">>)],
     [status |-> PyStr(<<" ", "CLOSED">>),  note |-> Absent],
     [status |-> Text("bogus"),             note |-> Absent],
     [status |-> Text("bogus"),             note |-> None],
     [status |-> PyInt(5),                  note |-> Absent]}

\* the ids a status request names: the ids of the stored records and one id
\* no record has
StatusEvents ==
    {[route |-> "status", intake_id |-> uuid4(n), body |-> b] :
        n \in 1..(MaxStored + 1), b \in StatusBodies}

\* a status check that lets every string through
StatusAllowedAny(new_status) == TRUE

\* dashboard handler.py line 127
StatusAllowed(new_status) == new_status \in VALID_STATUSES

\* dashboard handler.py lines 120-130: normalise and validate the request
StatusValidate(p, ev) ==
    /\ MayArrive(p)
    /\ ev \in StatusEvents
    /\  LET st == get(ev.body, "status", PyStr(<<>>))
            nt == get(ev.body, "note", PyStr(<<>>))
        IN
        /\ calls' = [calls EXCEPT ![p] = << >>]
        /\ IF st.t # "str" \/ nt.t # "str"
           THEN Finish(p, Unhandled("status", "AttributeError"))   \* .strip() of a non-str
           ELSE IF ~StatusAllowed(lower(strip(st.v)))
           THEN Finish(p, Response("status", 400, "Invalid status", Absent))
           ELSE /\ pc' = [pc EXCEPT ![p] = "update"]
                /\ local' = [local EXCEPT ![p] =
                      [route         |-> "status",
                       intake_id     |-> ev.intake_id,
                       new_status    |-> PyStr(lower(strip(st.v))),
                       attorney_note |-> PyStr(strip(nt.v))]]
                /\ UNCHANGED resp
    /\ UNCHANGED <<table, scanOrder, vvars>>

\* datetime.now(timezone.utc).isoformat().replace("+00:00", "Z")
isoformatZ(t) == PyStr(<<ToString(t), "Z">>)

\* an update sent without a ConditionExpression
NoCondition(tbl, key) == TRUE

\* dashboard db.py line 101: attribute_exists(intake_id), evaluated by the
\* store against the item under the key, atomically with the write
ConditionExpression(tbl, key) == key \in DOMAIN tbl

\* a write that replaces the item by the assigned attributes
ReplaceItem(item, assigned) == assigned

\* a write that leaves attorney_note as it was
SetWithoutNote(item, assigned) ==
    [a \in DOMAIN assigned \ {"attorney_note"} |-> assigned[a]] @@ item

\* DynamoDB SET: the assigned attributes are written, the others are kept
SetAttributes(item, assigned) == assigned @@ item

\* DynamoDB UpdateItem: edits the item under the key, creating it (with the
\* key attribute only) when there is none
UpdateItem(tbl, key, assigned) ==
    LET old == IF key \in DOMAIN tbl THEN tbl[key] ELSE [intake_id |-> key]
    IN  [k \in DOMAIN tbl \cup {key} |->
            IF k = key THEN SetAttributes(old, assigned) ELSE tbl[k]]

\* dashboard db.py lines 88-100: the UpdateExpression and its values
StatusAssignment(new_status, updated_at, note) ==
    [status |-> new_status, updated_at |-> updated_at, attorney_note |-> note]

\* dashboard handler.py lines 132-149 around db.update_status (db.py lines
\* 82-118): one UpdateItem request; a failed condition is raised as
\* ValueError, any other ClientError is re-raised, the handler answers 500
StatusUpdate(p) ==
    /\ pc[p] = "update"
    /\ \E t \in 0..MaxTime, reachable \in BOOLEAN :
        LET l == local[p] IN
        /\ calls' = [calls EXCEPT ![p] =
              IF ~reachable THEN <<"update_item", "ClientError">>
              ELSE IF ~ConditionExpression(table, l.intake_id)
              THEN <<"update_item", "ConditionalCheckFailedException">>
              ELSE <<"update_item">>]
        /\ IF ~reachable
           THEN /\ Finish(p, Response("status", 500, "Failed to update case status.", Absent))
                /\ UNCHANGED table
           ELSE IF ~ConditionExpression(table, l.intake_id)
           THEN /\ Finish(p, Response("status", 500, "Failed to update case status.", Absent))
                /\ UNCHANGED table
           ELSE /\ table' = UpdateItem(table, l.intake_id,
                               StatusAssignment(l.new_status, isoformatZ(t), l.attorney_note))
                /\ Finish(p, Response("status", 200, "", l.intake_id))
    /\ UNCHANGED <<scanOrder, vvars>>

(***************************************************************************)
(* The system: overlapping invocations of the two Lambdas over the table   *)
(***************************************************************************)
Init ==
    /\ InitInvocations
    /\ table \in Stores
    /\ scanOrder \in ScanOrders(table)
    /\ payload = PyDict(BasePayload)
    /\ verdict = "pending"

Next ==
    \E p \in Procs :
        \/ \E ev \in IntakeEvents : IntakeValidateInput(p, ev)
        \/ \E ev \in PortalEvents : PortalLookup(p, ev)
        \/ \E ev \in StatusEvents : StatusValidate(p, ev)
        \/ StatusUpdate(p)

Spec == Init /\ [][Next]_vars

(***************************************************************************)
(* lexflow-dashboard: GET /dashboard                                       *)
(***************************************************************************)
\* a response of the dashboard Lambda that carries a body
BodyResponse(route, code, body) ==
    [route |-> route, statusCode |-> code, error |-> "", intake_id |-> Absent,
     body |-> body]

\* the instant a timestamp text stands for; the texts are fixed-width, so
\* comparing two of them as strings compares their instants, and the empty
\* string (the default of line 70) is below every timestamp
InstantOf(ts) ==
    IF ts.v = << >> THEN -1
    ELSE CHOOSE t \in 0..MaxRecords : isoformat(t) = ts

\* line 70: the sort key
TimestampKey(item) == InstantOf(get(item, "timestamp", PyStr(<<>>)))

\* the items left in the order the scan returned them
Unsorted(items) == items

\* sorted(items, key=..., reverse=True): descending, and stable (items with
\* equal keys keep the order they have in items)
RECURSIVE SortedDescending(_)
SortedDescending(items) ==
    IF items = << >> THEN << >>
    ELSE LET n    == Len(items)
             done == SortedDescending(SubSeq(items, 1, n - 1))
             x    == items[n]
             \* x goes behind every item whose key is not smaller
             pos  == Cardinality({i \in DOMAIN done :
                                     TimestampKey(done[i]) >= TimestampKey(x)})
         IN  SubSeq(done, 1, pos) \o <<x>> \o SubSeq(done, pos + 1, Len(done))

\* a count that skips the items lacking the attribute
CountByPresent(items, attr, default) ==
    LET has == {i \in DOMAIN items : get(items[i], attr, Absent) # Absent}
    IN  [v \in {items[i][attr] : i \in has} |->
            Cardinality({i \in has : items[i][attr] = v})]

\* lines 53-55, 58-61: a defaultdict(int) counting the values of one attribute
CountBy(items, attr, default) ==
    LET val(i) == get(items[i], attr, default) IN
    [v \in {val(i) : i \in DOMAIN items} |->
        Cardinality({i \in DOMAIN items : val(i) = v})]

\* d.get(k, 0) on such a map
CountOf(d, k) == IF k \in DOMAIN d THEN d[k] ELSE 0

\* every score enters the average, a zero or missing one as 0
ViabilityScoresAll(items) ==
    [i \in DOMAIN items |-> IntValue(get(items[i], "viability_score", PyInt(0)))]

\* lines 62-64: the scores that enter the average
RECURSIVE ViabilityScores(_)
ViabilityScores(items) ==
    IF items = << >> THEN << >>
    ELSE LET score == get(Head(items), "viability_score", None)
             rest  == ViabilityScores(Tail(items))
         IN  IF truthy(score) /\ IntValue(score) > 0
             THEN <<IntValue(score)>> \o rest
             ELSE rest

RECURSIVE Sum(_)
Sum(xs) == IF xs = << >> THEN 0 ELSE Head(xs) + Sum(Tail(xs))

\* round(total / n, 1), in tenths: the nearest tenth, a tie going to the even
\* one (a tie is a quotient x.x5; for n below 20 it only arises as x.25 or
\* x.75, which a float holds exactly)
RoundTenths(total, n) ==
    LET q == (10 * total) \div n
        r == (10 * total) % n
    IN  IF 2 * r < n THEN q
        ELSE IF 2 * r > n THEN q + 1
        ELSE IF q % 2 = 0 THEN q ELSE q + 1

\* line 66, in tenths
AvgViability(scores) ==
    IF scores = << >> THEN 0 ELSE RoundTenths(Sum(scores), Len(scores))

\* line 82: sorted_items[:10]
LastIntakesLimit == 10

\* lines 72-81
DashboardEntry(item) ==
    [intake_id                   |-> get(item, "intake_id", None),
     timestamp                   |-> get(item, "timestamp", None),
     client_name                 |-> get(item, "client_name", None),
     case_type                   |-> get(item, "case_type", None),
     viability_score             |-> PyInt(IntValue(get(item, "viability_score", PyInt(0)))),
     urgency                     |-> get(item, "urgency", None),
     status                      |-> get(item, "status", None),
     statute_of_limitations_flag |-> get(item, "statute_of_limitations_flag", PyBool(FALSE))]

\* the whole sorted list, without the slice of line 82
LastAll(items) ==
    LET sorted_items == SortedDescending(items)
    IN  [i \in DOMAIN sorted_items |-> DashboardEntry(sorted_items[i])]

\* lines 70-83
Last10(items) ==
    LET sorted_items == SortedDescending(items)
        n == IF Len(sorted_items) < LastIntakesLimit THEN Len(sorted_items)
             ELSE LastIntakesLimit
    IN  [i \in 1..n |-> DashboardEntry(sorted_items[i])]

\* lines 52-94: the summary of a list of items
Summary(items) ==
    LET by_case_type == CountBy(items, "case_type", Text("Unknown"))
        by_urgency   == CountBy(items, "urgency", Text("unknown"))
        by_status    == CountBy(items, "status", Text("unknown"))
    IN  [total_intakes    |-> Len(items),
         avg_viability    |-> AvgViability(ViabilityScores(items)),
         new_unreviewed   |-> CountOf(by_status, Text("new")),
         critical_urgency |-> CountOf(by_urgency, Text("critical")),
         by_case_type     |-> by_case_type,
         by_urgency       |-> by_urgency,
         by_status        |-> by_status,
         last_10_intakes  |-> Last10(items)]

\* a summary built from the pages read before the failure
ScanFailedPartial(items) == BodyResponse("dashboard", 200, Summary(items))

\* handler.py lines 48-50: any exception of scan_all is answered with 500
ScanFailed(items) ==
    Response("dashboard", 500, "Failed to retrieve intake data.", Absent)

\* one Scan request of db.scan_all (db.py lines 34-39) starting behind the
\* first `cursor` keys of the scan order: the request fails, or it returns the
\* next items and, unless it has no LastEvaluatedKey, the loop goes on; the
\* page that ends the loop is followed by the summary (handler.py lines 52-97)
ScanRequest(p, cursor, items) ==
    LET remaining == Len(scanOrder) - cursor IN
    \E ok \in BOOLEAN, k \in 0..remaining, more \in BOOLEAN :
        /\ calls' = [calls EXCEPT ![p] = Append(@, IF ok THEN "scan" ELSE "ClientError")]
        /\ IF ~ok
           THEN Finish(p, ScanFailed(items))
           ELSE /\ (remaining > 0) => (k >= 1)
                /\ (k < remaining) => more
                /\ (remaining = 0) => ~more
                /\ LET page == [i \in 1..k |-> table[scanOrder[cursor + i]]] IN
                   IF more
                   THEN /\ pc' = [pc EXCEPT ![p] = "scan"]
                        /\ local' = [local EXCEPT ![p] =
                              [route |-> "dashboard", cursor |-> cursor + k,
                               items |-> items \o page]]
                        /\ UNCHANGED resp
                   ELSE Finish(p, BodyResponse("dashboard", 200, Summary(items \o page)))

\* db.py line 34: the first request
DashboardFirstPage(p) ==
    /\ MayArrive(p)
    /\ ScanRequest(p, 0, << >>)
    /\ UNCHANGED <<table, scanOrder, vvars>>

\* db.py lines 37-39: the loop
DashboardNextPage(p) ==
    /\ pc[p] = "scan"
    /\ ScanRequest(p, local[p].cursor, local[p].items)
    /\ UNCHANGED <<table, scanOrder, vvars>>

(***************************************************************************)
(* Record sets the dashboard is exercised on: n records whose attributes   *)
(* cycle through a few values with a stride the seed sets, so that ties    *)
(* and distinct timestamps, zero and positive scores, and several values   *)
(* of every grouped attribute occur; possibly one item more that lacks the *)
(* classification attributes; read in key order or in the reverse order.   *)
(***************************************************************************)
ScoreCycle == <<PyInt(0), PyInt(0), PyInt(8), PyInt(6), PyBool(TRUE), PyInt(10), PyInt(3)>>
CaseTypeCycle == <<Text("Family Law"), Text("Employment Law"), Text("Out of Scope")>>
UrgencyCycle == <<Text("low"), Text("critical"), Text("high"), Text("critical")>>
StatusCycle == <<Text("new"), Text("active"), Text("new"), Text("declined"), Text("closed")>>

Cycle(xs, i) == xs[(i % Len(xs)) + 1]

DashboardRecord(n, seed) ==
    LET ai == [BasePayload EXCEPT
                  !.viability_score = Cycle(ScoreCycle, n - 1 + seed),
                  !.case_type = Cycle(CaseTypeCycle, n * (seed + 1)),
                  !.urgency = Cycle(UrgencyCycle, n + 2 * seed)]
        built == BuildRecord([ai_result |-> ai] @@ BaseLocals, uuid4(n),
                             isoformat((n * (seed + 2)) % (MaxRecords + 1)),
                             token_urlsafe(n))
    IN  [built EXCEPT !.status = Cycle(StatusCycle, n + seed)]

\* an item without the attributes the classification sets
PartialItem ==
    [intake_id |-> uuid4(0), timestamp |-> isoformat(1), client_name |-> Text("Bo")]

DashboardStores ==
    {[id \in {uuid4(n) : n \in lo..k} |->
         IF id = uuid4(0) THEN PartialItem
         ELSE DashboardRecord(CHOOSE n \in 1..k : uuid4(n) = id, seed)] :
       lo \in {0, 1}, k \in 0..MaxRecords, seed \in 0..MaxSeed}

\* the keys of a dashboard store in key order, or in the reverse order
KeyOrders(tbl) ==
    LET n == Cardinality(DOMAIN tbl)
        lo == IF uuid4(0) \in DOMAIN tbl THEN 0 ELSE 1
        up == [i \in 1..n |-> uuid4(lo + i - 1)]
    IN  {up, [i \in 1..n |-> up[n + 1 - i]]}

InitDashboard ==
    /\ InitInvocations
    /\ table \in DashboardStores
    /\ scanOrder \in KeyOrders(table)
    /\ payload = PyDict(BasePayload)
    /\ verdict = "pending"

NextDashboard == DashboardFirstPage(1) \/ DashboardNextPage(1)

SpecDashboard == InitDashboard /\ [][NextDashboard]_vars

(***************************************************************************)
(* The validator alone, on every enumerated payload                        *)
(***************************************************************************)
InitValidate ==
    /\ InitSystem
    /\ payload \in Payloads
    /\ verdict = "pending"

\* classify, lines 124-135: _validate(result), then return result
RunValidate ==
    /\ verdict = "pending"
    /\ verdict' = _validate(payload)
    /\ UNCHANGED <<payload, svars>>

NextValidate == RunValidate

SpecValidate == InitValidate /\ [][NextValidate]_vars

(***************************************************************************)
(* The notification block on its own: lines 134-161 entered with a record  *)
(* just written from an accepted classification, for every outcome of the  *)
(* two SES requests.  No invocation of the present handler gets this far   *)
(* (see IntakeValidateInput); the block is exercised as the code that      *)
(* follows a successful put_item.                                          *)
(***************************************************************************)
AcceptedPayloads == {x \in Payloads : _validate(x) = "ok"}

InitNotify ==
    /\ payload \in AcceptedPayloads
    /\ verdict = "ok"
    /\ table = PutItem(<< >>, BuildRecord([ai_result |-> payload.v] @@ BaseLocals,
                                         uuid4(1), isoformat(0), token_urlsafe(1)))
    /\ scanOrder = <<uuid4(1)>>
    /\ pc = [p \in Procs |-> IF p = 1 THEN "notify" ELSE "idle"]
    /\ local = [p \in Procs |->
                  IF p = 1 THEN [route |-> "intake", intake_id |-> uuid4(1)] ELSE NoLocal]
    /\ resp = [p \in Procs |-> NoResp]
    /\ calls = [p \in Procs |-> IF p = 1 THEN <<"classify", "put_item">> ELSE << >>]

NextNotify == \E ses1 \in SesOutcomes, ses2 \in SesOutcomes : IntakeNotify(1, ses1, ses2)

SpecNotify == InitNotify /\ [][NextNotify]_vars

(***************************************************************************)
(* lexflow-intake/ai_classifier.py: _strip_fences and the parse that       *)
(* follows it.  Here a text is the sequence of its characters.             *)
(***************************************************************************)
\* the backtick character
BACKTICK == "backtick"

FENCE == <<BACKTICK, BACKTICK, BACKTICK>>

\* str.startswith
startswith(s, prefix) ==
    Len(s) >= Len(prefix) /\ SubSeq(s, 1, Len(prefix)) = prefix

\* str.find, 1-based: the first place sep occurs in s, 0 when it does not
find(s, sep) ==
    LET at == {k \in 1..(Len(s) - Len(sep) + 1) : SubSeq(s, k, k + Len(sep) - 1) = sep}
    IN  IF at = {} THEN 0 ELSE CHOOSE k \in at : \A j \in at : k <= j

\* str.split(sep): the pieces between the occurrences of sep, found from the
\* left without overlap
RECURSIVE split(_, _)
split(s, sep) ==
    LET k == find(s, sep) IN
    IF k = 0 THEN <<s>>
    ELSE <<SubSeq(s, 1, k - 1)>> \o split(SubSeq(s, k + Len(sep), Len(s)), sep)

\* ai_classifier.py lines 40-49 (parts[1] of Python is the second piece)
_strip_fences(text) ==
    LET stripped == strip(text) IN
    IF startswith(stripped, FENCE)
    THEN LET parts   == split(stripped, FENCE)
             content == parts[2]
         IN  IF startswith(content, <<"j", "s", "o", "n">>)
             THEN strip(SubSeq(content, 5, Len(content)))
             ELSE strip(content)
    ELSE stripped

\* the JSON objects the classifier texts carry: a well-formed
\* classification, one without urgency, and a well-formed one whose
\* client_acknowledgment holds three backticks
ObjectTexts ==
    {<<"{", "a", "}">>, <<"{", "b", "}">>, <<"{", BACKTICK, BACKTICK, BACKTICK, "}">>}

\* the value the text of an object stands for
ObjectOf(t) ==
    CASE t = <<"{", "a", "}">> -> PyDict(BasePayload)
      [] t = <<"{", "b", "}">> -> PyDict([BasePayload EXCEPT !.urgency = Absent])
      [] t = <<"{", BACKTICK, BACKTICK, BACKTICK, "}">> ->
             PyDict([BasePayload EXCEPT !.client_acknowledgment = PyStr(<<BACKTICK, BACKTICK, BACKTICK>>)])

\* json.loads on these texts: whitespace around the value is allowed,
\* anything else around it is a JSONDecodeError
json_loads(text) ==
    IF strip(text) \in ObjectTexts
    THEN [kind |-> "text", json_ok |-> TRUE, value |-> ObjectOf(strip(text))]
    ELSE [kind |-> "text", json_ok |-> FALSE, value |-> None]

\* the language tags a fence is followed by: none, json, and others
LanguageTags ==
    {<< >>, <<"j", "s", "o", "n">>, <<"J", "S", "O", "N">>, <<"j", "s">>,
     <<"j", "s", "o", "n", "c">>}

\* an object text inside a fence: whitespace, the opening marker, a tag, a
\* line break or none, the object, a line break, the closing marker
Wrap(object, lead, tag, sep, tail) ==
    lead \o FENCE \o tag \o sep \o object \o <<"\n">> \o FENCE \o tail

Wrappings(object) ==
    {Wrap(object, lead, tag, sep, tail) :
        lead \in {<< >>, <<" ">>}, tag \in LanguageTags,
        sep \in {<< >>, <<"\n">>}, tail \in {<< >>, <<"\n">>}}

\* texts without a fence at the start: objects, bare or padded, and prose
Unfenced ==
    {lead \o t \o tail :
        lead \in {<< >>, <<" ">>, <<"\n">>},
        t \in ObjectTexts \cup {<<"n", "o">>, <<"{", "a", "}", BACKTICK, BACKTICK, BACKTICK>>},
        tail \in {<< >>, <<"\n">>}}

ClassifierTexts == Unfenced \cup UNION {Wrappings(t) : t \in ObjectTexts}

\* what classify makes of a parse: "ok" or the exception it raises
Decision(reply) ==
    IF classify(reply).raised = "" THEN "ok" ELSE classify(reply).raised

InitFences ==
    /\ InitSystem
    /\ payload = None
    /\ verdict = "pending"

\* classify, lines 115-126, on the text raw_text of the reply
ClassifyParse(p, raw_text) ==
    /\ MayArrive(p)
    /\ raw_text \in ClassifierTexts
    /\ LET cleaned == _strip_fences(raw_text)
           reply   == json_loads(cleaned)
       IN  /\ local' = [local EXCEPT ![p] =
                 [route |-> "classify", raw_text |-> raw_text, cleaned |-> cleaned]]
           /\ payload' = reply.value
           /\ verdict' = Decision(reply)
    /\ pc' = [pc EXCEPT ![p] = "done"]
    /\ UNCHANGED <<table, scanOrder, resp, calls>>

NextFences == \E raw_text \in ClassifierTexts : ClassifyParse(1, raw_text)

SpecFences == InitFences /\ [][NextFences]_vars

(***************************************************************************)
(* Properties                                                              *)
(***************************************************************************)
StatusStepOf(p)  == pc[p] = "update" /\ pc'[p] = "done"

\* C1: a status update for an intake_id that is not in the table never
\* creates a record: the step of db.update_status leaves the table exactly
\* as it was, whatever the other invocations did before it; and no status
\* update at all changes which keys the table holds.
C1_UpdateNeverCreates ==
    [][\A p \in Procs :
          StatusStepOf(p) =>
             /\ DOMAIN table' = DOMAIN table
             /\ (local[p].intake_id \notin DOMAIN table => table' = table)]_vars

\* a conditional update was refused for an id the table does not hold, after
\* another invocation had updated a record that it does hold
C1_Witness ==
    \E p \in Procs, q \in Procs :
        /\ pc[p] = "done"
        /\ calls[p] = <<"update_item", "ConditionalCheckFailedException">>
        /\ pc[q] = "done"
        /\ calls[q] = <<"update_item">>
        /\ resp[q].statusCode = 200

\* C4: a successful db.update_status on an existing record sets status and
\* attorney_note to the values it was called with and sets updated_at; every
\* other attribute of that item and every other item are unchanged.
C4_UpdateTouchesOnlyStatusNoteUpdatedAt ==
    [][\A p \in Procs :
          (StatusStepOf(p) /\ resp'[p].statusCode = 200) =>
             LET id == local[p].intake_id IN
             /\ id \in DOMAIN table
             /\ DOMAIN table' = DOMAIN table
             /\ table'[id].status = local[p].new_status
             /\ table'[id].attorney_note = local[p].attorney_note
             /\ DOMAIN table'[id] = DOMAIN table[id] \cup {"updated_at"}
             /\ \A a \in DOMAIN table[id] \ {"status", "attorney_note", "updated_at"} :
                    table'[id][a] = table[id][a]
             /\ \A k \in DOMAIN table \ {id} : table'[k] = table[k]]_vars

\* an update was applied to a stored record while the table held a second
\* record
C4_Witness ==
    \E p \in Procs :
        /\ pc[p] = "done"
        /\ calls[p] = <<"update_item">>
        /\ resp[p].statusCode = 200
        /\ table[resp[p].intake_id].status = Text("declined")
        /\ table[resp[p].intake_id].attorney_note = Text("not viable")
        /\ table[resp[p].intake_id].case_type = BasePayload.case_type
        /\ "updated_at" \in DOMAIN table[resp[p].intake_id]
        /\ Cardinality(DOMAIN table) >= 2

\* the answer of handle_status_update to an invalid status
Rejected(p) ==
    /\ pc'[p] = "done"
    /\ resp'[p] = Response("status", 400, "Invalid status", Absent)
    /\ calls'[p] = << >>
    /\ table' = table

\* C5: a status request whose requested status is not one of the six allowed
\* values is rejected with the invalid-status error, db.update_status is not
\* called and the table is unchanged.
C5_InvalidStatusRejectedBeforeStorage ==
    [][\A p \in Procs, ev \in StatusEvents :
          (/\ StatusValidate(p, ev)
           /\ ~InStrSet(get(ev.body, "status", PyStr(<<>>)), VALID_STATUSES))
             => Rejected(p)]_vars

\* what the handler does guarantee: a request whose status and note are
\* strings (or absent) and whose status, trimmed and lower-cased, is not one
\* of the six allowed values is rejected with the invalid-status error,
\* db.update_status is not called and the table is unchanged.
NormalisedInvalidStatusRejected ==
    [][\A p \in Procs, ev \in StatusEvents :
          LET st == get(ev.body, "status", PyStr(<<>>))
              nt == get(ev.body, "note", PyStr(<<>>))
          IN
          (/\ StatusValidate(p, ev)
           /\ st.t = "str" /\ nt.t = "str"
           /\ lower(strip(st.v)) \notin VALID_STATUSES)
             => Rejected(p)]_vars

\* a request was answered with the invalid-status error, no call made
InvalidStatusAnswered ==
    \E p \in Procs :
        /\ pc[p] = "done"
        /\ resp[p] = Response("status", 400, "Invalid status", Absent)
        /\ calls[p] = << >>

\* C6: the status of every stored record is one of new, claimed, active,
\* needs_review, declined, closed.
C6_StoredStatusAllowed ==
    \A k \in DOMAIN table :
        /\ table[k].status.t = "str"
        /\ table[k].status.v \in
              {<<"new">>, <<"claimed">>, <<"active">>, <<"needs_review">>,
               <<"declined">>, <<"closed">>}

\* a status update changed the status of a stored record to closed (the
\* request spelled it " CLOSED")
C6_Witness ==
    \E k \in DOMAIN table : table[k].status = Text("closed")

\* a required client field that is a blank string
Blank(x) == x.t = "str" /\ strip(x.v) = <<>>

\* C7: a submission in which a required client field is absent or empty
\* after trimming is rejected with a 400 answer at the point of detection:
\* the classifier is not called and no record is written.
C7_BlankFieldsRejected ==
    [][\A p \in Procs, ev \in IntakeEvents :
          (/\ IntakeValidateInput(p, ev)
           /\ ev.json_ok
           /\ \E f \in REQUIRED_FIELDS : f \notin keys(ev.body) \/ Blank(ev.body[f]))
             => /\ pc'[p] = "done"
                /\ resp'[p].statusCode = 400
                /\ calls'[p] = << >>
                /\ table' = table]_vars

\* C8: _validate accepts a payload only if case_type is one of the 12 values,
\* urgency one of the 4, statute_of_limitations_flag a boolean and the three
\* text fields strings that are non-empty after trimming.
C8_AcceptedEnumsFlagAndTexts ==
    verdict = "ok" =>
        /\ payload.t = "dict"
        /\ payload.v["case_type"].t = "str"
        /\ payload.v["case_type"].v \in VALID_CASE_TYPES
        /\ payload.v["urgency"].t = "str"
        /\ payload.v["urgency"].v \in VALID_URGENCY
        /\ payload.v["statute_of_limitations_flag"].t = "bool"
        /\ \A f \in {"recommended_specialty", "recommended_action", "client_acknowledgment"} :
              /\ payload.v[f].t = "str"
              /\ strip(payload.v[f].v) # <<>>

\* a payload other than the well-formed base was accepted
C8_Witness ==
    /\ verdict = "ok"
    /\ payload.v["case_type"] = Text("Out of Scope")
    /\ payload.v["recommended_action"] = PyStr(<<" ", "padded", " ">>)

\* C9: _validate accepts a payload only if viability_score is an integer
\* (not a boolean, string, float or null) between 0 and 10.
C9_AcceptedScoreIsInteger ==
    verdict = "ok" =>
        /\ payload.v["viability_score"].t = "int"
        /\ payload.v["viability_score"].v \in 0..10

\* C10: _validate accepts a payload only if key_facts is a list of 3 to 5
\* elements, every one a non-empty string.
C10_AcceptedFactsNonEmptyStrings ==
    verdict = "ok" =>
        /\ payload.v["key_facts"].t = "list"
        /\ Len(payload.v["key_facts"].v) \in 3..5
        /\ \A i \in DOMAIN payload.v["key_facts"].v :
              /\ payload.v["key_facts"].v[i].t = "str"
              /\ payload.v["key_facts"].v[i].v # <<>>

\* the checks of _validate in the order of the claim: presence, case_type,
\* urgency, score, flag, key_facts, text fields
CheckFails(r, i) ==
    CASE i = 1 -> \E k \in REQUIRED_KEYS : r[k] = Absent
      [] i = 2 -> EnumCheck(r["case_type"], VALID_CASE_TYPES, "Invalid case_type") # "ok"
      [] i = 3 -> EnumCheck(r["urgency"], VALID_URGENCY, "Invalid urgency") # "ok"
      [] i = 4 -> ScoreCheck(r["viability_score"]) # "ok"
      [] i = 5 -> r["statute_of_limitations_flag"].t # "bool"
      [] i = 6 -> FactsCheck(r["key_facts"]) # "ok"
      [] i = 7 -> FirstBadText(r) # ""

\* the checks an error can come from
StageOf(v) ==
    CASE v = "Missing required keys" -> {1}
      [] v = "Invalid case_type" -> {2}
      [] v = "Invalid urgency" -> {3}
      [] v = "TypeError: unhashable type" -> {2, 3}
      [] v = "viability_score out of range" -> {4}
      [] v = "statute_of_limitations_flag must be a boolean" -> {5}
      [] v \in {"key_facts must be a list of 3-5 strings",
                "key_facts: element is not a string"} -> {6}
      [] v = "must be a non-empty string" -> {7}
      [] OTHER -> {}

TokenOwners(ev) ==
    {k \in DOMAIN table : table[k].portal_token = PyStr(strip(ev.token.v))}

\* a portal request whose lookup reached the store and came back
LookedUp(p, ev) ==
    /\ PortalLookup(p, ev)
    /\ calls'[p] = <<"get_by_token">>

\* C14: db.get_by_token returns the stored record that carries the token
\* whenever one exists, whatever the number of records and the order in
\* which the scan reads them, and None when no record carries it; it never
\* returns a record with another token.
C14_TokenLookupFindsRecord ==
    [][\A p \in Procs, ev \in PortalEvents :
          LookedUp(p, ev) =>
             IF TokenOwners(ev) = {}
             THEN local'[p].record = None
             ELSE \E k \in TokenOwners(ev) : local'[p].record = table[k]]_vars

\* what the lookup does guarantee: a record it returns carries the token
TokenLookupNeverWrong ==
    [][\A p \in Procs, ev \in PortalEvents :
          (LookedUp(p, ev) /\ local'[p].record # None)
             => local'[p].record.portal_token = PyStr(strip(ev.token.v))]_vars

\* C15: a portal request whose token matches a stored record is answered
\* 200 with exactly the record's client_name, case_type, status, timestamp
\* and incident_date; one whose token matches no record is answered 404.
C15_PortalAnswersFiveFields ==
    [][\A p \in Procs, ev \in PortalEvents :
          LookedUp(p, ev) =>
             IF TokenOwners(ev) = {}
             THEN resp'[p].statusCode = 404
             ELSE /\ resp'[p].statusCode = 200
                  /\ "body" \in DOMAIN resp'[p]
                  /\ \E k \in TokenOwners(ev) :
                        resp'[p].body =
                           [f \in {"client_name", "case_type", "status",
                                   "timestamp", "incident_date"} |-> table[k][f]]]_vars

\* the dashboard request was answered with a summary
Answered ==
    /\ pc[1] = "done"
    /\ resp[1].route = "dashboard"
    /\ resp[1].statusCode = 200

RECURSIVE SumOver(_, _)
SumOver(S, f) ==
    IF S = {} THEN 0
    ELSE LET x == CHOOSE y \in S : TRUE IN f[x] + SumOver(S \ {x}, f)

\* the numeric viability score of a stored record, 0 when it has none
ScoreOf(k) == IntValue(get(table[k], "viability_score", PyInt(0)))

\* C16: avg_viability is the mean of the scores of exactly the records whose
\* score is greater than 0, rounded to one decimal place (here in tenths: no
\* other tenth is nearer to the mean), and 0.0 when no record has such a
\* score.
C16_AvgOverPositiveScores ==
    Answered =>
        LET positive == {k \in DOMAIN table : ScoreOf(k) > 0}
            n     == Cardinality(positive)
            total == SumOver(positive, [k \in positive |-> ScoreOf(k)])
            avg   == resp[1].body.avg_viability
            diff  == 10 * total - avg * n
        IN  IF n = 0 THEN avg = 0
            ELSE 2 * (IF diff < 0 THEN 0 - diff ELSE diff) <= n

\* the scores 0, 0, 8, 6 gave the average 7.0
C16_Witness ==
    /\ Answered
    /\ Cardinality(DOMAIN table) = 4
    /\ Cardinality({k \in DOMAIN table : ScoreOf(k) = 0}) = 2
    /\ \E k \in DOMAIN table : ScoreOf(k) = 8
    /\ \E k \in DOMAIN table : ScoreOf(k) = 6
    /\ resp[1].body.avg_viability = 70

\* C17: last_10_intakes has exactly min(10, n) entries for n stored records,
\* and every entry has exactly the keys intake_id, timestamp, client_name,
\* case_type, viability_score, urgency, status, statute_of_limitations_flag.
C17_LastTenLengthAndKeys ==
    Answered =>
        LET n == Cardinality(DOMAIN table)
            last == resp[1].body.last_10_intakes
        IN  /\ Len(last) = IF n < 10 THEN n ELSE 10
            /\ \A i \in DOMAIN last :
                  DOMAIN last[i] =
                     {"intake_id", "timestamp", "client_name", "case_type",
                      "viability_score", "urgency", "status",
                      "statute_of_limitations_flag"}

\* more than ten records were stored and ten were listed
C17_Witness ==
    /\ Answered
    /\ Cardinality(DOMAIN table) > 10
    /\ Len(resp[1].body.last_10_intakes) = 10

\* C18: last_10_intakes is in non-increasing timestamp order, and every
\* listed record has a timestamp greater than or equal to that of every
\* record that is not listed.
C18_LastTenMostRecentFirst ==
    Answered =>
        LET last   == resp[1].body.last_10_intakes
            listed == {last[i].intake_id : i \in DOMAIN last}
        IN  /\ \A i, j \in DOMAIN last :
                  i < j => InstantOf(last[i].timestamp) >= InstantOf(last[j].timestamp)
            /\ \A i \in DOMAIN last, k \in DOMAIN table \ listed :
                  InstantOf(last[i].timestamp) >= TimestampKey(table[k])

\* of more than ten records, read by the scan oldest key first, ten were
\* listed, the first of them later than the last, some left out
C18_Witness ==
    /\ Answered
    /\ Cardinality(DOMAIN table) > 10
    /\ scanOrder[1] = uuid4(1)
    /\ LET last == resp[1].body.last_10_intakes
       IN  /\ InstantOf(last[1].timestamp) > InstantOf(last[Len(last)].timestamp)
           /\ \E k \in DOMAIN table :
                 TimestampKey(table[k]) < InstantOf(last[Len(last)].timestamp)

\* a map of counts is right for one attribute: every value that occurs is a
\* key, every key's count is the number of records carrying the value and is
\* not zero, and the counts add up to the number of records
CountsRight(m, attr, default) ==
    /\ \A k \in DOMAIN table : get(table[k], attr, default) \in DOMAIN m
    /\ \A v \in DOMAIN m :
          /\ m[v] = Cardinality({k \in DOMAIN table : get(table[k], attr, default) = v})
          /\ m[v] > 0
    /\ SumOver(DOMAIN m, m) = Cardinality(DOMAIN table)

\* C19: total_intakes is the number of records; by_case_type, by_urgency and
\* by_status map every value that occurs to the number of records carrying
\* it (a missing case_type under "Unknown"), hold no zero count and each add
\* up to total_intakes; new_unreviewed and critical_urgency count the
\* records with status new and urgency critical; for an empty record set the
\* totals are 0, the average 0.0, the maps and the list empty.
C19_CountsMatchRecordSet ==
    Answered =>
        LET b == resp[1].body
            K == DOMAIN table
        IN  /\ b.total_intakes = Cardinality(K)
            /\ CountsRight(b.by_case_type, "case_type", Text("Unknown"))
            /\ CountsRight(b.by_urgency, "urgency", Text("unknown"))
            /\ CountsRight(b.by_status, "status", Text("unknown"))
            /\ b.new_unreviewed =
                  Cardinality({k \in K : get(table[k], "status", None) = Text("new")})
            /\ b.critical_urgency =
                  Cardinality({k \in K : get(table[k], "urgency", None) = Text("critical")})
            /\ K = {} =>
                  /\ b.total_intakes = 0 /\ b.avg_viability = 0
                  /\ b.new_unreviewed = 0 /\ b.critical_urgency = 0
                  /\ DOMAIN b.by_case_type = {} /\ DOMAIN b.by_urgency = {}
                  /\ DOMAIN b.by_status = {} /\ b.last_10_intakes = << >>

\* a record set with an item lacking case_type and several case types was
\* summarised
C19_Witness ==
    /\ Answered
    /\ \E k \in DOMAIN table : "case_type" \notin DOMAIN table[k]
    /\ resp[1].body.by_case_type[Text("Unknown")] = 1
    /\ Cardinality(DOMAIN resp[1].body.by_case_type) >= 3
    /\ resp[1].body.new_unreviewed >= 2
    /\ resp[1].body.critical_urgency >= 2

\* the stored items in the order the scan reads them
FullScan == [i \in 1..Len(scanOrder) |-> table[scanOrder[i]]]

\* C20: while db.scan_all follows the cursors it holds every item read so
\* far exactly once; the page without LastEvaluatedKey ends the loop and the
\* summary is that of every stored item exactly once; a page request that
\* fails ends the invocation with the 500 answer and no summary, whatever
\* was read before.
C20_ScanAllCompleteOrFails ==
    [][(pc[1] # "done") =>
          LET last_call == calls'[1][Len(calls'[1])] IN
          /\ pc'[1] = "scan" =>
                /\ last_call = "scan"
                /\ local'[1].items = SubSeq(FullScan, 1, local'[1].cursor)
          /\ (pc'[1] = "done" /\ last_call = "scan") =>
                /\ resp'[1].statusCode = 200
                /\ resp'[1].body = Summary(FullScan)
                /\ resp'[1].body.total_intakes = Cardinality(DOMAIN table)
          /\ (pc'[1] = "done" /\ last_call = "ClientError") =>
                /\ resp'[1] = Response("dashboard", 500, "Failed to retrieve intake data.", Absent)
                /\ "body" \notin DOMAIN resp'[1]]_vars

\* the third page request failed after two pages had been read
C20_Witness ==
    /\ pc[1] = "done"
    /\ calls[1] = <<"scan", "scan", "ClientError">>
    /\ resp[1].statusCode = 500
    /\ Cardinality(DOMAIN table) >= 2

\* C21: a status request with a valid status for an id the table does not
\* hold, which the store received, is answered with a not-found answer (404)
\* that names the id, and that answer differs from the one a store failure
\* gets.
C21_UnknownIdAnsweredNotFound ==
    [][\A p \in Procs :
          (/\ StatusStepOf(p)
           /\ local[p].intake_id \notin DOMAIN table
           /\ calls'[p] = <<"update_item", "ConditionalCheckFailedException">>)
             => /\ resp'[p].statusCode = 404
                /\ resp'[p].intake_id = local[p].intake_id
                /\ resp'[p] # Response("status", 500, "Failed to update case status.", Absent)]_vars

\* the status and note a valid request asks for, as the handler passes them
RequestedPairs ==
    {<<PyStr(lower(strip(b.status.v))), PyStr(strip(get(b, "note", PyStr(<<>>)).v))>> :
        b \in {x \in StatusBodies :
                 /\ x.status.t = "str"
                 /\ get(x, "note", PyStr(<<>>)).t = "str"
                 /\ lower(strip(x.status.v)) \in VALID_STATUSES}}

\* status and note of every record that was updated come from one request
StatusAndNoteFromOneRequest ==
    \A k \in DOMAIN table :
        "updated_at" \in DOMAIN table[k] =>
            <<table[k].status, table[k].attorney_note>> \in RequestedPairs

\* C22: status updates of one record that overlap are each applied as one
\* write: in every state the status and the note of an updated record come
\* from the same request, the record holds the values of the update the
\* store applied last, and every update the store applied is answered 200.
C22_ConcurrentUpdatesAtomic ==
    /\ []StatusAndNoteFromOneRequest
    /\ [][\A p \in Procs :
             (StatusStepOf(p) /\ calls'[p] = <<"update_item">>) =>
                /\ resp'[p].statusCode = 200
                /\ table'[local[p].intake_id].status = local[p].new_status
                /\ table'[local[p].intake_id].attorney_note = local[p].attorney_note]_vars

\* two requests for the same record were both applied and answered 200, and
\* the record holds the status and the note of the one asking for closed
C22_Witness ==
    \E p, q \in Procs :
        /\ p # q
        /\ pc[p] = "done" /\ pc[q] = "done"
        /\ calls[p] = <<"update_item">> /\ calls[q] = <<"update_item">>
        /\ resp[p].statusCode = 200 /\ resp[q].statusCode = 200
        /\ resp[p].intake_id = resp[q].intake_id
        /\ table[resp[p].intake_id].status = Text("closed")
        /\ table[resp[p].intake_id].attorney_note = PyStr(<<>>)

C24_SummaryIndependentOfScanOrder ==
    Answered =>
        \A order \in KeyOrders(table) :
            resp[1].body = Summary([i \in 1..Len(order) |-> table[order[i]]])

\* what does hold: everything in the summary but the order of
\* last_10_intakes among entries of equal timestamp is the same for every
\* scan order
SummaryIndependentUpToTies ==
    Answered =>
        \A order \in KeyOrders(table) :
            LET other == Summary([i \in 1..Len(order) |-> table[order[i]]])
                mine  == resp[1].body
            IN  /\ [mine EXCEPT !.last_10_intakes = << >>] =
                      [other EXCEPT !.last_10_intakes = << >>]
                /\ Len(mine.last_10_intakes) = Len(other.last_10_intakes)
                /\ \A i \in DOMAIN mine.last_10_intakes :
                      mine.last_10_intakes[i].timestamp = other.last_10_intakes[i].timestamp

NoMailWithoutRecord ==
    \A p \in Procs : resp[p].route = "intake" => calls[p] = << >>

\* C26: for every object text P, the text P wrapped in a fence, with or
\* without a language tag, is cleaned to a text that parses to the object of
\* P and gets the decision P gets; a text that does not start with a fence
\* is returned unchanged apart from trimming.
C26_FenceStrippingPreservesPayload ==
    pc[1] = "done" =>
        /\ \A object \in ObjectTexts :
              local[1].raw_text \in Wrappings(object) =>
                 /\ payload = ObjectOf(object)
                 /\ verdict = Decision(json_loads(object))
        /\ ~startswith(strip(local[1].raw_text), FENCE) =>
                 local[1].cleaned = strip(local[1].raw_text)

\* what does hold: an object text without a fence marker inside it, wrapped
\* with no tag or the tag json, parses to its object and gets its decision,
\* and a text that does not start with a fence is only trimmed
PlainFenceStrippingPreservesPayload ==
    pc[1] = "done" =>
        /\ \A object \in {t \in ObjectTexts : find(t, FENCE) = 0},
              lead \in {<< >>, <<" ">>}, tag \in {<< >>, <<"j", "s", "o", "n">>},
              sep \in {<< >>, <<"\n">>}, tail \in {<< >>, <<"\n">>} :
              local[1].raw_text = Wrap(object, lead, tag, sep, tail) =>
                 /\ payload = ObjectOf(object)
                 /\ verdict = Decision(json_loads(object))
        /\ ~startswith(strip(local[1].raw_text), FENCE) =>
                 local[1].cleaned = strip(local[1].raw_text)

====
